---- MODULE Spec2Model ----
(***************************************************************************)
(* Model of delira's type-preserving JSON codec                            *)
(* (delira/utils/external/trixi/json_utils.py) and of the throttling of    *)
(* TensorboardXHandler (delira/logging/tensorboardx_handler.py).           *)
(*                                                                         *)
(* A Python object is the pair <<type name, payload>>: o[1] names its type *)
(* and o[2] is its payload.  A JSON value is a pair of the same kind.      *)
(* Codec strings are sequences of one-character strings, so that prefix    *)
(* tests, slices, number formatting and number parsing are computed.       *)
(* Mode names of the handler are atomic strings (only compared).           *)
(***************************************************************************)
EXTENDS Integers, Sequences, FiniteSets, TLC

VARIABLES
    \* ---- TensorboardXHandler ----
    hpc,                  \* "new" | "ready" | "failed" (constructor raised);
                          \* "idle" while the codec runs
    logging_frequencies,  \* the constructor argument
    frequencies,          \* self._frequencies
    counter,              \* self._counter
    fired,                \* number of calls add_<k> made on the backend, per mode
    occ,                  \* number of emitted dict records that had k as a key
    aborted,              \* TRUE once an emit has raised
    record,               \* record.msg of the last emit
    emit_result,          \* "none" | "ok" | name of the exception the last emit raised
    \* ---- codec ----
    pc,                   \* "start" | "received" | "encoded" | "decoded" |
                          \* "leaf" | "leaf_strict" | "encode_raised" |
                          \* "leaf_raised" | "decode_raised"; "idle" while the
                          \* handler runs
    obj,                  \* the Python value handed to encode
    text,                 \* the JSON document produced by encode / handed to decode
    result,               \* the value returned by decode
    warnings              \* number of warnings.warn calls so far

hvars == <<hpc, logging_frequencies, frequencies, counter, fired, occ, aborted, record,
           emit_result>>
cvars == <<pc, obj, text, result, warnings>>
vars == <<hvars, cvars>>

(***************************************************************************)
(* Bounds                                                                  *)
(***************************************************************************)
MaxFreq == 3        \* periods are drawn from 0..MaxFreq
MaxSeen == 4        \* a mode is emitted at most MaxSeen times
MaxShortList == 1   \* generated frequency lists have at most this length
MaxKeys == 2        \* generated numeric-keyed dicts have at most this many items

(***************************************************************************)
(* Generic helpers                                                         *)
(***************************************************************************)
Range(s) == {s[i] : i \in 1..Len(s)}

Raise(name) == <<"raise", name>>

IsRaise(x) == x[1] = "raise"

None == <<"None", 0>>

PyInt(n) == <<"int", n>>

(***************************************************************************)
(* TensorboardXHandler                                                     *)
(***************************************************************************)
SUPPORTED_MODES == <<"scalar", "image", "figure", "histogram", "audio",
                     "text", "graph", "onnx_graph", "embedding",
                     "pr_curve", "video">>

ModeSet == Range(SUPPORTED_MODES)

NumModes == Len(SUPPORTED_MODES)

\* A mode name used as a frequency (what zip yields when it iterates a dict).
ModeStr(s) == <<"modestr", s>>

\* dict.get(key, 1) on a dict given as a sequence of <<key, value>> pairs
DictGet(d, key, default) ==
    IF \E i \in 1..Len(d) : d[i][1] = key
    THEN (CHOOSE p \in Range(d) : p[1] = key)[2]
    ELSE default

\* _create_frequencies: the isinstance chain, in the order of the code.
\* A dict is an Iterable, so it takes the Iterable branch: the padding
\* `logging_frequencies + [1] * missing_freqs` raises TypeError for a dict,
\* and zip(SUPPORTED_MODES, d) pairs the modes with the KEYS of d.
_create_frequencies(lf) ==
    IF lf[1] = "None" THEN
        <<"dict", [k \in ModeSet |-> PyInt(1)]>>
    ELSE IF lf[1] = "int" THEN
        <<"dict", [k \in ModeSet |-> PyInt(lf[2])]>>
    ELSE IF lf[1] \in {"list", "dict"} THEN
        LET missing_freqs == NumModes - Len(lf[2])
            items == IF lf[1] = "list"
                     THEN [i \in 1..Len(lf[2]) |-> PyInt(lf[2][i])]
                     ELSE [i \in 1..Len(lf[2]) |-> ModeStr(lf[2][i][1])]
            padded == IF missing_freqs > 0
                      THEN items \o [i \in 1..missing_freqs |-> PyInt(1)]
                      ELSE items
        IN  IF Len(lf[2]) # NumModes /\ missing_freqs > 0 /\ lf[1] = "dict"
            THEN Raise("TypeError")
            ELSE <<"dict",
                  [k \in ModeSet |->
                           padded[CHOOSE i \in 1..NumModes : SUPPORTED_MODES[i] = k]]>>
    ELSE IF lf[1] = "dict" THEN
        <<"dict", [k \in ModeSet |-> PyInt(DictGet(lf[2], k, 1))]>>
    ELSE Raise("ValueError")

\* emit_step with the modulo taken on the counter before its increment
emit_step_stale(st, key, freqs) ==
    IF st.exc # "ok" \/ key \notin ModeSet THEN st
    ELSE LET f == freqs[key]
             st1 == [st EXCEPT !.counter[key] = @ + 1]
         IN  IF f[1] # "int" THEN [st1 EXCEPT !.exc = "TypeError"]
             ELSE IF f[2] = 0 THEN [st1 EXCEPT !.exc = "ZeroDivisionError"]
             ELSE IF st.counter[key] % f[2] = 0 THEN [st1 EXCEPT !.fired[key] = @ + 1]
             ELSE st1

\* emit_step without the test `key in self.SUPPORTED_MODES` before the call
emit_step_unguarded(st, key, freqs) ==
    IF st.exc # "ok" THEN st
    ELSE IF key \notin ModeSet THEN [st EXCEPT !.fired[key] = @ + 1]
    ELSE LET c == st.counter[key] + 1
             f == freqs[key]
             st1 == [st EXCEPT !.counter[key] = c]
         IN  IF f[1] # "int" THEN [st1 EXCEPT !.exc = "TypeError"]
             ELSE IF f[2] = 0 THEN [st1 EXCEPT !.exc = "ZeroDivisionError"]
             ELSE IF c % f[2] = 0 THEN [st1 EXCEPT !.fired[key] = @ + 1]
             ELSE st1

\* One iteration of emit's loop body for `key`, on the loop state
\* st = [counter, fired, exc]; once an exception is raised the remaining
\* iterations do not happen.
emit_step(st, key, freqs) ==
    IF st.exc # "ok" \/ key \notin ModeSet THEN st
    ELSE LET c == st.counter[key] + 1
             f == freqs[key]
             st1 == [st EXCEPT !.counter[key] = c]
         IN  IF f[1] # "int" THEN [st1 EXCEPT !.exc = "TypeError"]
             ELSE IF f[2] = 0 THEN [st1 EXCEPT !.exc = "ZeroDivisionError"]
             ELSE IF c % f[2] = 0 THEN [st1 EXCEPT !.fired[key] = @ + 1]
             ELSE st1

\* The for loop of emit over record.msg.items(), in insertion order.
RECURSIVE emit_loop(_, _, _)
emit_loop(st, keys, freqs) ==
    IF keys = <<>> THEN st
    ELSE emit_loop(emit_step(st, Head(keys), freqs), Tail(keys), freqs)

\* Keys a record may carry: two supported modes and one unsupported key.
MsgKeys == {"scalar", "image", "bogus"}

\* The backend operations add_<k> a record could name.
Ops == ModeSet \cup MsgKeys

\* record.msg: a dict, given by its keys in insertion order, or a non-dict.
DictMsgs == {s \in UNION {[1..n -> MsgKeys] : n \in 0..Cardinality(MsgKeys)} :
                \A i, j \in 1..Len(s) : i # j => s[i] # s[j]}

Msgs == {<<"dict", s>> : s \in DictMsgs} \cup {<<"str", <<>>>>}

\* Constructor arguments
FullList(n) == [i \in 1..n |-> (i % MaxFreq) + 1]

FullDict(n) == [i \in 1..n |-> IF i <= NumModes THEN <<SUPPORTED_MODES[i], 2>>
                                ELSE <<"bogus", 2>>]

FreqArgs ==
    {None}
    \cup {PyInt(n) : n \in 0..MaxFreq}
    \cup {<<"list", s>> :
            s \in UNION {[1..n -> 0..MaxFreq] : n \in 0..MaxShortList}}
    \cup {<<"list", FullList(n)>> : n \in NumModes..(NumModes + 1)}
    \cup {<<"dict", d>> :
            d \in {<<>>, <<<<"scalar", 2>>>>, <<<<"image", 3>>, <<"bogus", 2>>>>,
                   <<<<"scalar", 3>>, <<"image", 2>>>>,
                   FullDict(NumModes), FullDict(NumModes + 1)}}
    \cup {<<"float", 0>>}

HInitIdle ==
    /\ hpc = "idle"
    /\ logging_frequencies = None
    /\ frequencies = [k \in ModeSet |-> PyInt(1)]
    /\ counter = [k \in ModeSet |-> 0]
    /\ fired = [k \in Ops |-> 0]
    /\ occ = [k \in Ops |-> 0]
    /\ aborted = FALSE
    /\ record = None
    /\ emit_result = "none"

HInit ==
    /\ hpc = "new"
    /\ logging_frequencies \in FreqArgs
    /\ frequencies = [k \in ModeSet |-> PyInt(1)]
    /\ counter = [k \in ModeSet |-> 0]
    /\ fired = [k \in Ops |-> 0]
    /\ occ = [k \in Ops |-> 0]
    /\ aborted = FALSE
    /\ record = None
    /\ emit_result = "none"

\* TensorboardXHandler.__init__
Construct ==
    /\ hpc = "new"
    /\ LET fr == _create_frequencies(logging_frequencies)
       IN  IF IsRaise(fr)
           THEN /\ hpc' = "failed"
                /\ emit_result' = fr[2]
                /\ UNCHANGED <<frequencies, counter>>
           ELSE /\ hpc' = "ready"
                /\ frequencies' = fr[2]
                /\ counter' = [k \in ModeSet |-> 0]
                /\ UNCHANGED emit_result
    /\ UNCHANGED <<logging_frequencies, fired, occ, aborted, record>>

\* TensorboardXHandler.emit
emit(msg) ==
    /\ hpc = "ready"
    /\ record' = msg
    /\ IF msg[1] # "dict"
       THEN /\ emit_result' = "ok"
            /\ UNCHANGED <<counter, fired, occ, aborted>>
       ELSE LET st == emit_loop([counter |-> counter, fired |-> fired, exc |-> "ok"],
                                msg[2], frequencies)
            IN  /\ occ' = [k \in Ops |-> IF k \in Range(msg[2]) THEN occ[k] + 1 ELSE occ[k]]
                /\ \A k \in Ops : occ'[k] <= MaxSeen
                /\ counter' = st.counter
                /\ fired' = st.fired
                /\ emit_result' = st.exc
                /\ aborted' = (aborted \/ st.exc # "ok")
    /\ UNCHANGED <<hpc, logging_frequencies, frequencies>>

Emit == \E msg \in Msgs : emit(msg)

(***************************************************************************)
(* Codec: text                                                             *)
(***************************************************************************)
Digits == <<"0", "1", "2", "3", "4", "5", "6", "7", "8", "9">>

IsDigit(c) == c \in Range(Digits)

DigitVal(c) == (CHOOSE i \in 1..10 : Digits[i] = c) - 1

Abs(n) == IF n < 0 THEN -n ELSE n

\* str(n) for a non-negative integer
RECURSIVE NatStr(_)
NatStr(n) == IF n < 10 THEN <<Digits[n + 1]>>
             ELSE NatStr(n \div 10) \o <<Digits[(n % 10) + 1]>>

\* str(n) for an integer
IntStr(n) == IF n < 0 THEN <<"-">> \o NatStr(-n) ELSE NatStr(n)

\* value of a non-empty string of digits
RECURSIVE StrToNat(_)
StrToNat(s) == IF Len(s) = 0 THEN 0
               ELSE 10 * StrToNat(SubSeq(s, 1, Len(s) - 1)) + DigitVal(s[Len(s)])

AllDigits(s) == Len(s) > 0 /\ \A i \in 1..Len(s) : IsDigit(s[i])

\* s.startswith(p)
StartsWith(s, p) == Len(s) >= Len(p) /\ SubSeq(s, 1, Len(p)) = p

\* s[start:-1] (start counted from 0, as in Python; the slice is clamped)
SliceToLast(s, start) ==
    IF start + 1 > Len(s) - 1 THEN <<>> ELSE SubSeq(s, start + 1, Len(s) - 1)

\* s.strip() for blanks
RECURSIVE Strip(_)
Strip(s) == IF Len(s) = 0 THEN s
            ELSE IF s[1] = " " THEN Strip(Tail(s))
            ELSE IF s[Len(s)] = " " THEN Strip(SubSeq(s, 1, Len(s) - 1))
            ELSE s

\* index of the last occurrence of c in s, 0 when there is none
LastIndexOf(s, c) ==
    IF \E i \in 1..Len(s) : s[i] = c
    THEN CHOOSE i \in 1..Len(s) : s[i] = c /\ \A j \in (i + 1)..Len(s) : s[j] # c
    ELSE 0

\* ".".join(s.split(".")[:-1]) and s.split(".")[-1]
ModulePart(s) == IF LastIndexOf(s, ".") = 0 THEN <<>>
                 ELSE SubSeq(s, 1, LastIndexOf(s, ".") - 1)

NamePart(s) == SubSeq(s, LastIndexOf(s, ".") + 1, Len(s))

TagInt == <<"_", "_", "i", "n", "t", "_", "_">>

TagFloat == <<"_", "_", "f", "l", "o", "a", "t", "_", "_">>

TagTuple == <<"_", "_", "t", "u", "p", "l", "e", "_", "_">>

TagType == <<"_", "_", "t", "y", "p", "e", "_", "_">>

TagFunction == <<"_", "_", "f", "u", "n", "c", "t", "i", "o", "n", "_", "_">>

TagModule == <<"_", "_", "m", "o", "d", "u", "l", "e", "_", "_">>

\* "<tag>({})".format(payload)
Tagged(tag, payload) == tag \o <<"(">> \o payload \o <<")">>

(***************************************************************************)
(* Codec: Python values                                                    *)
(* Floats are the multiples of 0.1 (v = <<"fin", tenths>>) and the         *)
(* non-finite values <<"inf", 0>>, <<"-inf", 0>>, <<"nan", 0>>.             *)
(***************************************************************************)
PyStr(cs) == <<"str", cs>>

PyBool(b) == <<"bool", b>>

PyFloat(k) == <<"float", <<"fin", k>>>>

PyInf == <<"float", <<"inf", 0>>>>

PyNan == <<"float", <<"nan", 0>>>>

PyList(s) == <<"list", s>>

PyTuple(s) == <<"tuple", s>>

\* a dict is the sequence of its <<key, value>> items in insertion order
PyDict(s) == <<"dict", s>>

NpIntTypes == {"np.int32", "np.int64"}

NpFloatTypes == {"np.float32", "np.float64"}

\* repr / str of a float (and of a numpy floating scalar under format)
FloatRepr(f) ==
    IF f[1] = "fin"
    THEN (IF f[2] < 0 THEN <<"-">> ELSE <<>>)
         \o NatStr(Abs(f[2]) \div 10) \o <<".">> \o <<Digits[(Abs(f[2]) % 10) + 1]>>
    ELSE IF f[1] = "inf" THEN <<"i", "n", "f">>
    ELSE IF f[1] = "-inf" THEN <<"-", "i", "n", "f">>
    ELSE <<"n", "a", "n">>

\* int(s): optional blanks, optional sign, digits; anything else is a ValueError
PyIntParse(s) ==
    LET u == Strip(s)
        neg == Len(u) > 0 /\ u[1] = "-"
        body == IF Len(u) > 0 /\ u[1] \in {"-", "+"} THEN Tail(u) ELSE u
    IN  IF AllDigits(body)
        THEN PyInt(IF neg THEN -StrToNat(body) ELSE StrToNat(body))
        ELSE Raise("ValueError")

\* float(s): optional blanks, optional sign, then inf | nan | digits[.digit*]
\* (every text of the input sets has at most one fractional digit)
PyFloatParse(s) ==
    LET u == Strip(s)
        neg == Len(u) > 0 /\ u[1] = "-"
        body == IF Len(u) > 0 /\ u[1] \in {"-", "+"} THEN Tail(u) ELSE u
        dot == LastIndexOf(body, ".")
        whole == IF dot = 0 THEN body ELSE SubSeq(body, 1, dot - 1)
        frac == IF dot = 0 THEN <<>> ELSE SubSeq(body, dot + 1, Len(body))
        mag == 10 * StrToNat(whole) + (IF Len(frac) = 0 THEN 0 ELSE DigitVal(frac[1]))
    IN  IF body \in {<<"i", "n", "f">>, <<"i", "n", "f", "i", "n", "i", "t", "y">>}
        THEN <<"float", <<IF neg THEN "-inf" ELSE "inf", 0>>>>
        ELSE IF body = <<"n", "a", "n">> THEN PyNan
        ELSE IF /\ Len(whole) + Len(frac) > 0
                /\ \A i \in 1..Len(whole) : IsDigit(whole[i])
                /\ \A i \in 1..Len(frac) : IsDigit(frac[i])
                /\ Len(frac) <= 1
        THEN PyFloat(IF neg THEN -mag ELSE mag)
        ELSE Raise("ValueError")

\* repr(o) of a plain scalar or of a tuple of plain scalars
RECURSIVE PyRepr(_), JoinRepr(_)
PyRepr(o) ==
    IF o[1] = "int" THEN IntStr(o[2])
    ELSE IF o[1] = "bool" THEN (IF o[2] THEN <<"T", "r", "u", "e">>
                                      ELSE <<"F", "a", "l", "s", "e">>)
    ELSE IF o[1] = "None" THEN <<"N", "o", "n", "e">>
    ELSE IF o[1] = "float" THEN FloatRepr(o[2])
    ELSE IF o[1] = "str" THEN <<"'">> \o o[2] \o <<"'">>
    ELSE IF o[1] = "tuple" THEN
        IF Len(o[2]) = 1 THEN <<"(">> \o PyRepr(o[2][1]) \o <<",", ")">>
        ELSE <<"(">> \o JoinRepr(o[2]) \o <<")">>
    ELSE <<"<", o[1], ">">>

\* ", ".join(repr(e) for e in s)
JoinRepr(s) ==
    IF Len(s) = 0 THEN <<>>
    ELSE IF Len(s) = 1 THEN PyRepr(s[1])
    ELSE PyRepr(s[1]) \o <<",", " ">> \o JoinRepr(Tail(s))

\* "{}".format(o), i.e. str(o)
Format(o) ==
    IF o[1] = "str" THEN o[2]
    ELSE IF o[1] \in NpIntTypes THEN IntStr(o[2])
    ELSE IF o[1] \in NpFloatTypes THEN FloatRepr(o[2])
    ELSE PyRepr(o)

(***************************************************************************)
(* ast.literal_eval on the literals the codec writes: int, float, True,    *)
(* False, None, quoted strings, tuple and list displays (nested).  A name  *)
(* such as inf or nan is not a literal and is rejected.                    *)
(***************************************************************************)
ParseFail == [ok |-> FALSE, val |-> None, next |-> 0, comma |-> FALSE]

ParseOk(val, next) == [ok |-> TRUE, val |-> val, next |-> next, comma |-> FALSE]

RECURSIVE SkipWs(_, _)
SkipWs(s, i) == IF i <= Len(s) /\ s[i] = " " THEN SkipWs(s, i + 1) ELSE i

RECURSIVE ScanDigits(_, _)
ScanDigits(s, i) == IF i <= Len(s) /\ IsDigit(s[i]) THEN ScanDigits(s, i + 1) ELSE i

MatchAt(s, i, w) == i + Len(w) - 1 <= Len(s) /\ SubSeq(s, i, i + Len(w) - 1) = w

\* an unsigned number starting at i
ParseNumber(s, i, neg) ==
    LET j == ScanDigits(s, i)
        k == ScanDigits(s, j + 1)
        sign == IF neg THEN -1 ELSE 1
    IN  IF j = i THEN ParseFail
        ELSE IF j <= Len(s) /\ s[j] = "."
        THEN IF k - (j + 1) > 1 THEN ParseFail
             ELSE ParseOk(PyFloat(sign * (10 * StrToNat(SubSeq(s, i, j - 1))
                                   + (IF k = j + 1 THEN 0 ELSE DigitVal(s[j + 1])))), k)
        ELSE ParseOk(PyInt(sign * StrToNat(SubSeq(s, i, j - 1))), j)

\* a quoted string starting at the quote at i
ParseQuoted(s, i) ==
    IF \E j \in (i + 1)..Len(s) : s[j] = "'"
    THEN LET j == CHOOSE j \in (i + 1)..Len(s) :
                    s[j] = "'" /\ \A m \in (i + 1)..(j - 1) : s[m] # "'"
         IN  ParseOk(PyStr(SubSeq(s, i + 1, j - 1)), j + 1)
    ELSE ParseFail

\* what a parenthesised display denotes: a single element without a comma
\* is that element, anything else a tuple
ParenDisplay(r) ==
    IF ~r.ok THEN ParseFail
    ELSE IF Len(r.val) = 1 /\ ~r.comma THEN ParseOk(r.val[1], r.next)
    ELSE ParseOk(PyTuple(r.val), r.next)

ListDisplay(r) == IF ~r.ok THEN ParseFail ELSE ParseOk(PyList(r.val), r.next)

RECURSIVE ParseValueAt(_, _), ParseSeqAt(_, _, _, _, _), AfterElement(_, _, _, _, _, _)
\* the literal that starts at i (blanks skipped)
ParseValueAt(s, i) ==
    IF i > Len(s) THEN ParseFail
    ELSE IF s[i] = "(" THEN ParenDisplay(ParseSeqAt(s, SkipWs(s, i + 1), <<>>, FALSE, ")"))
    ELSE IF s[i] = "[" THEN ListDisplay(ParseSeqAt(s, SkipWs(s, i + 1), <<>>, FALSE, "]"))
    ELSE IF s[i] = "'" THEN ParseQuoted(s, i)
    ELSE IF s[i] = "-" THEN ParseNumber(s, i + 1, TRUE)
    ELSE IF IsDigit(s[i]) THEN ParseNumber(s, i, FALSE)
    ELSE IF MatchAt(s, i, <<"T", "r", "u", "e">>) THEN ParseOk(PyBool(TRUE), i + 4)
    ELSE IF MatchAt(s, i, <<"F", "a", "l", "s", "e">>) THEN ParseOk(PyBool(FALSE), i + 5)
    ELSE IF MatchAt(s, i, <<"N", "o", "n", "e">>) THEN ParseOk(None, i + 4)
    ELSE ParseFail

\* the elements of a display from i (blanks skipped) up to its closing
\* bracket; acc holds the elements read so far and comma tells whether a
\* comma was read
ParseSeqAt(s, i, acc, comma, close) ==
    IF i > Len(s) THEN ParseFail
    ELSE IF s[i] = close
    THEN [ok |-> TRUE, val |-> acc, next |-> i + 1, comma |-> comma]
    ELSE AfterElement(s, ParseValueAt(s, i), acc, comma, close, 0)

\* what follows the element e of a display: a comma or the closing bracket
\* (j = 0: blanks after e not skipped yet)
AfterElement(s, e, acc, comma, close, j) ==
    IF ~e.ok THEN ParseFail
    ELSE IF j = 0 THEN AfterElement(s, e, acc, comma, close, SkipWs(s, e.next))
    ELSE IF j > Len(s) THEN ParseFail
    ELSE IF s[j] = ","
    THEN ParseSeqAt(s, SkipWs(s, j + 1), Append(acc, e.val), TRUE, close)
    ELSE IF s[j] = close
    THEN [ok |-> TRUE, val |-> Append(acc, e.val), next |-> j + 1, comma |-> comma]
    ELSE ParseFail

\* the literal must span the whole text
WholeText(s, r) ==
    IF r.ok /\ SkipWs(s, r.next) > Len(s) THEN r.val ELSE Raise("ValueError")

\* ast.literal_eval(s)
literal_eval(s) == WholeText(s, ParseValueAt(s, SkipWs(s, 1)))

\* tuple(x)
ToTuple(x) ==
    IF IsRaise(x) THEN x
    ELSE IF x[1] \in {"tuple", "list"} THEN PyTuple(x[2])
    ELSE IF x[1] = "str" THEN PyTuple([i \in 1..Len(x[2]) |-> PyStr(<<x[2][i]>>)])
    ELSE Raise("TypeError")

(***************************************************************************)
(* Results of the walkers: the value (or the exception raised) and the     *)
(* number of warnings emitted on the way.                                  *)
(***************************************************************************)
Ret(val, warn) == [val |-> val, warn |-> warn]

RECURSIVE SumWarn(_, _)
SumWarn(rs, n) == IF n = 0 THEN 0 ELSE rs[n].warn + SumWarn(rs, n - 1)

\* Evaluate the results rs left to right: the values of all of them, or the
\* first exception, with the warnings emitted up to there.
Collect(rs) ==
    IF \E i \in 1..Len(rs) : IsRaise(rs[i].val)
    THEN LET i == CHOOSE i \in 1..Len(rs) :
                    IsRaise(rs[i].val) /\ \A j \in 1..(i - 1) : ~IsRaise(rs[j].val)
         IN  [ok |-> FALSE, val |-> rs[i].val, warn |-> SumWarn(rs, i)]
    ELSE [ok |-> TRUE, val |-> [i \in 1..Len(rs) |-> rs[i].val],
          warn |-> SumWarn(rs, Len(rs))]

\* Python's == on dict keys: numbers compare by value across int, bool and
\* float, nan equals nothing, everything else compares structurally.
IsNumber(a) == a[1] \in {"int", "bool"} \/ (a[1] = "float" /\ a[2][1] = "fin")

NumVal(a) == IF a[1] = "int" THEN 10 * a[2]
             ELSE IF a[1] = "bool" THEN (IF a[2] THEN 10 ELSE 0)
             ELSE a[2][2]

PyEq(a, b) ==
    IF IsNumber(a) /\ IsNumber(b) THEN NumVal(a) = NumVal(b)
    ELSE IF a[1] = "float" /\ a[2][1] = "nan" THEN FALSE
    ELSE a = b

\* d[k] = v on a dict given by its items
DictPut(d, k, v) ==
    IF \E i \in 1..Len(d) : PyEq(d[i][1], k)
    THEN LET i == CHOOSE i \in 1..Len(d) : PyEq(d[i][1], k)
         IN  [d EXCEPT ![i] = <<d[i][1], v>>]
    ELSE Append(d, <<k, v>>)

\* the dict built by a comprehension that yields the items kv in order
RECURSIVE DictFromItems(_)
DictFromItems(kv) ==
    IF Len(kv) = 0 THEN <<>>
    ELSE DictPut(DictFromItems(SubSeq(kv, 1, Len(kv) - 1)),
                 kv[Len(kv)][1], kv[Len(kv)][2])

\* the flat sequence k1, v1, k2, v2, ... regrouped into items
Pairs(flat) == [i \in 1..(Len(flat) \div 2) |-> <<flat[2 * i - 1], flat[2 * i]>>]

(***************************************************************************)
(* Encoders                                                                *)
(***************************************************************************)
\* MultiTypeEncoder._encode
MultiTypeEncoder_encode(o) ==
    IF o[1] = "tuple" THEN PyStr(Tagged(TagTuple, Format(o)))
    ELSE IF o[1] \in NpIntTypes THEN PyStr(Tagged(TagInt, Format(o)))
    ELSE IF o[1] \in NpFloatTypes THEN PyStr(Tagged(TagFloat, Format(o)))
    ELSE IF o[1] = "ndarray" THEN PyList([i \in 1..Len(o[2]) |-> PyInt(o[2][i])])
    ELSE o

\* the try/except around the inherited rules: a failure r is re-raised
\* under strict and otherwise replaced, with a warning, by repr(obj)
Rescue(r, o, strict) ==
    IF IsRaise(r)
    THEN IF strict THEN Ret(r, 0) ELSE Ret(PyStr(PyRepr(o)), 1)
    ELSE Ret(r, 0)

\* ModuleMultiTypeEncoder._encode
ModuleMultiTypeEncoder_encode(o, strict) ==
    IF o[1] = "type" THEN Ret(PyStr(Tagged(TagType, o[2][1] \o <<".">> \o o[2][2])), 0)
    ELSE IF o[1] = "torch.dtype" THEN Ret(PyStr(Tagged(TagType, o[2])), 0)
    ELSE IF o[1] = "function"
    THEN Ret(PyStr(Tagged(TagFunction, o[2][1] \o <<".">> \o o[2][2])), 0)
    ELSE IF o[1] = "module" THEN Ret(PyStr(Tagged(TagModule, o[2])), 0)
    ELSE Rescue(MultiTypeEncoder_encode(o), o, strict)

\* _encode_key as the base class has it: a key is encoded like a value
MultiTypeEncoder_encode_key_untagged(o) == ModuleMultiTypeEncoder_encode(o, FALSE)

\* MultiTypeEncoder._encode_key; bool is a subclass of int and numpy's
\* float64 a subclass of float
MultiTypeEncoder_encode_key(o) ==
    IF o[1] \in {"int", "bool"} THEN Ret(PyStr(Tagged(TagInt, Format(o))), 0)
    ELSE IF o[1] \in {"float", "np.float64"}
    THEN Ret(PyStr(Tagged(TagFloat, Format(o))), 0)
    ELSE ModuleMultiTypeEncoder_encode(o, FALSE)

\* the list / the dict built from the collected results c
ListOf(c) == IF ~c.ok THEN Ret(c.val, c.warn) ELSE Ret(PyList(c.val), c.warn)

DictOf(c) ==
    IF ~c.ok THEN Ret(c.val, c.warn) ELSE Ret(PyDict(DictFromItems(Pairs(c.val))), c.warn)

\* CustomJSONEncoder._encode_switch; _encode is called without `strict`
RECURSIVE _encode_switch(_)
_encode_switch(o) ==
    IF o[1] = "list" THEN
        ListOf(Collect([i \in 1..Len(o[2]) |-> _encode_switch(o[2][i])]))
    ELSE IF o[1] = "dict" THEN
        DictOf(Collect([i \in 1..(2 * Len(o[2])) |->
                          IF i % 2 = 1
                          THEN MultiTypeEncoder_encode_key(o[2][(i + 1) \div 2][1])
                          ELSE _encode_switch(o[2][i \div 2][2])]))
    ELSE ModuleMultiTypeEncoder_encode(o, FALSE)

(***************************************************************************)
(* json.JSONEncoder.encode / json.JSONDecoder.decode.  A JSON document is  *)
(* kept as its tree; numbers are kept as the text json writes and reads.   *)
(***************************************************************************)
JStr(cs) == <<"jstr", cs>>

JNum(cs) == <<"jnum", cs>>

JArr(s) == <<"jarr", s>>

\* the members of an object, in text order, as <<name, value>>
JObj(s) == <<"jobj", s>>

JsonInfinity == <<"I", "n", "f", "i", "n", "i", "t", "y">>

JsonNaN == <<"N", "a", "N">>

\* the text json writes for a float
JsonFloat(f) ==
    IF f[1] = "fin" THEN FloatRepr(f)
    ELSE IF f[1] = "inf" THEN JsonInfinity
    ELSE IF f[1] = "-inf" THEN <<"-">> \o JsonInfinity
    ELSE JsonNaN

\* the member name json writes for a dict key, or TypeError
JsonKey(k) ==
    IF k[1] = "str" THEN JStr(k[2])
    ELSE IF k[1] = "int" THEN JStr(IntStr(k[2]))
    ELSE IF k[1] = "float" THEN JStr(JsonFloat(k[2]))
    ELSE IF k[1] = "bool" THEN JStr(IF k[2] THEN <<"t", "r", "u", "e">>
                                          ELSE <<"f", "a", "l", "s", "e">>)
    ELSE IF k[1] = "None" THEN JStr(<<"n", "u", "l", "l">>)
    ELSE Raise("TypeError")

JsonArray(c) == IF ~c.ok THEN c.val ELSE JArr(c.val)

JsonObject(c) ==
    IF ~c.ok THEN c.val
    ELSE JObj([i \in 1..(Len(c.val) \div 2) |-> <<c.val[2 * i - 1][2], c.val[2 * i]>>])

RECURSIVE JsonDumps(_)
JsonDumps(o) ==
    IF o[1] = "str" THEN JStr(o[2])
    ELSE IF o[1] = "int" THEN JNum(IntStr(o[2]))
    ELSE IF o[1] = "float" THEN JNum(JsonFloat(o[2]))
    ELSE IF o[1] = "bool" THEN <<"jbool", o[2]>>
    ELSE IF o[1] = "None" THEN <<"jnull", 0>>
    ELSE IF o[1] \in {"list", "tuple"} THEN
        JsonArray(Collect([i \in 1..Len(o[2]) |-> Ret(JsonDumps(o[2][i]), 0)]))
    ELSE IF o[1] = "dict" THEN
        JsonObject(Collect([i \in 1..(2 * Len(o[2])) |->
                              IF i % 2 = 1
                              THEN Ret(JsonKey(o[2][(i + 1) \div 2][1]), 0)
                              ELSE Ret(JsonDumps(o[2][i \div 2][2]), 0)]))
    ELSE Raise("TypeError")

RECURSIVE JsonLoads(_)
JsonLoads(j) ==
    IF j[1] = "jstr" THEN PyStr(j[2])
    ELSE IF j[1] = "jnum" THEN
        IF j[2] = JsonInfinity THEN PyInf
        ELSE IF j[2] = <<"-">> \o JsonInfinity THEN <<"float", <<"-inf", 0>>>>
        ELSE IF j[2] = JsonNaN THEN PyNan
        ELSE IF LastIndexOf(j[2], ".") # 0 THEN PyFloatParse(j[2])
        ELSE PyIntParse(j[2])
    ELSE IF j[1] = "jbool" THEN PyBool(j[2])
    ELSE IF j[1] = "jnull" THEN None
    ELSE IF j[1] = "jarr" THEN PyList([i \in 1..Len(j[2]) |-> JsonLoads(j[2][i])])
    ELSE PyDict(DictFromItems([i \in 1..Len(j[2]) |->
                                 <<PyStr(j[2][i][1]), JsonLoads(j[2][i][2])>>]))

\* json.JSONEncoder.encode(x) for the walked value e1: a str is written
\* directly; anything else goes to self.iterencode, which CustomJSONEncoder
\* overrides to run _encode_switch a second time (e2) before writing
Written(e, warn) == IF IsRaise(e.val) THEN Ret(e.val, warn + e.warn)
                    ELSE Ret(JsonDumps(e.val), warn + e.warn)

SuperEncode(e1) ==
    IF IsRaise(e1.val) THEN e1
    ELSE IF e1.val[1] = "str" THEN Ret(JsonDumps(e1.val), e1.warn)
    ELSE Written(_encode_switch(e1.val), e1.warn)

\* CustomJSONEncoder.encode
encode(o) == SuperEncode(_encode_switch(o))

(***************************************************************************)
(* Decoders                                                                *)
(***************************************************************************)
\* The importable modules and their attributes: module a defines the class
\* T and the function f and has the submodule a.b, which defines the class T.
ModA == <<"a">>

ModAB == <<"a", ".", "b">>

\* importlib.import_module(m)
import_module(m) ==
    IF m \in {ModA, ModAB} THEN <<"module", m>> ELSE Raise("ImportError")

\* getattr(mod, name)
getattr(mod, name) ==
    IF IsRaise(mod) THEN mod
    ELSE IF mod[2] = ModA /\ name = <<"T">> THEN <<"type", <<ModA, name>>>>
    ELSE IF mod[2] = ModA /\ name = <<"f">> THEN <<"function", <<ModA, name>>>>
    ELSE IF mod[2] = ModA /\ name = <<"b">> THEN <<"module", ModAB>>
    ELSE IF mod[2] = ModAB /\ name = <<"T">> THEN <<"type", <<ModAB, name>>>>
    ELSE Raise("AttributeError")

\* MultiTypeDecoder._decode
MultiTypeDecoder_decode(o) ==
    IF o[1] = "str" THEN
        IF StartsWith(o[2], TagInt) THEN PyIntParse(SliceToLast(o[2], 8))
        ELSE IF StartsWith(o[2], TagFloat) THEN PyFloatParse(SliceToLast(o[2], 10))
        ELSE IF StartsWith(o[2], TagTuple) THEN ToTuple(literal_eval(SliceToLast(o[2], 10)))
        ELSE o
    ELSE o

\* the lookup of a reference without its try/except
Resolved_unguarded(found, str_) == Ret(found, 0)

\* the try/except around the lookup of a reference: a failure warns and
\* leaves the path text in place
Resolved(found, str_) == IF IsRaise(found) THEN Ret(PyStr(str_), 1) ELSE Ret(found, 0)

\* ModuleMultiTypeDecoder._decode
ModuleMultiTypeDecoder_decode(o) ==
    IF o[1] = "str" /\ StartsWith(o[2], TagType) THEN
        LET str_ == SliceToLast(o[2], 9)
        IN  Resolved(getattr(import_module(ModulePart(str_)), NamePart(str_)), str_)
    ELSE IF o[1] = "str" /\ StartsWith(o[2], TagFunction) THEN
        LET str_ == SliceToLast(o[2], 13)
        IN  Resolved(getattr(import_module(ModulePart(str_)), NamePart(str_)), str_)
    ELSE IF o[1] = "str" /\ StartsWith(o[2], TagModule) THEN
        LET str_ == SliceToLast(o[2], 11)
        IN  Resolved(import_module(str_), str_)
    ELSE Ret(MultiTypeDecoder_decode(o), 0)

\* CustomJSONDecoder._decode_switch; _decode_key is _decode
RECURSIVE _decode_switch(_)
_decode_switch(o) ==
    IF o[1] = "list" THEN
        ListOf(Collect([i \in 1..Len(o[2]) |-> _decode_switch(o[2][i])]))
    ELSE IF o[1] = "dict" THEN
        DictOf(Collect([i \in 1..(2 * Len(o[2])) |->
                          IF i % 2 = 1
                          THEN ModuleMultiTypeDecoder_decode(o[2][(i + 1) \div 2][1])
                          ELSE _decode_switch(o[2][i \div 2][2])]))
    ELSE ModuleMultiTypeDecoder_decode(o)

\* CustomJSONDecoder.decode
decode(j) == _decode_switch(JsonLoads(j))

(***************************************************************************)
(* Codec: the values handed to encode and the documents handed to decode   *)
(***************************************************************************)
StrA == PyStr(<<"a">>)

StrB == PyStr(<<"b">>)

NpInt32(n) == <<"np.int32", n>>

NpInt64(n) == <<"np.int64", n>>

NpFloat32(f) == <<"np.float32", f>>

NpFloat64(f) == <<"np.float64", f>>

TypeObj(m, n) == <<"type", <<m, n>>>>

FunctionObj(m, n) == <<"function", <<m, n>>>>

ModuleObj(m) == <<"module", m>>

\* an instance of a class defined locally: no encode rule knows it
LocalObject == <<"object", 1>>

PlainLeaves ==
    {PyInt(5), PyInt(-12), PyFloat(25), PyInf, StrA, PyStr(<<>>), PyBool(TRUE), None}

Tuples ==
    {PyTuple(<<>>), PyTuple(<<PyInt(5)>>), PyTuple(<<PyInt(1), PyInt(2), PyInt(3)>>),
     PyTuple(<<PyInt(-12), PyFloat(25), StrA, PyBool(TRUE), None>>),
     PyTuple(<<PyFloat(-5), PyTuple(<<PyInt(5)>>)>>),
     PyTuple(<<PyInf>>), PyTuple(<<PyInt(1), PyNan>>)}

RichLeaves ==
    {NpInt32(5), NpInt64(-12), NpFloat32(<<"fin", 25>>), NpFloat64(<<"fin", -5>>),
     NpFloat32(<<"inf", 0>>),
     TypeObj(ModA, <<"T">>), TypeObj(<<"x">>, <<"Y">>), FunctionObj(ModA, <<"f">>),
     ModuleObj(ModAB), <<"torch.dtype", <<"t", ".", "i", "8">>>>,
     LocalObject, <<"ndarray", <<1, 2>>>>}

Hashable(x) == x[1] \notin {"list", "dict", "ndarray"}

\* x at the top level, as a list item, as a dict value, as a dict key
Shapes(x) ==
    {x, PyList(<<x>>), PyList(<<StrA, x, PyInt(5)>>), PyDict(<<<<StrA, x>>>>),
     PyList(<<PyDict(<<<<StrB, x>>, <<StrA, None>>>>)>>)}
    \cup (IF Hashable(x) THEN {PyDict(<<<<x, StrA>>>>)} ELSE {})

NumKeys == {PyInt(5), PyInt(-12), PyInt(0), PyFloat(25), PyFloat(-5), PyFloat(50), PyInf}

\* dicts with native int and float keys; a dict never holds two equal keys
NumKeyDicts ==
    {PyDict(d) : d \in {s \in UNION {[1..n -> NumKeys \X {StrA, PyInt(7)}] : n \in 0..MaxKeys} :
                          \A i, j \in 1..Len(s) : i # j => ~PyEq(s[i][1], s[j][1])}}

NumKeyDocs ==
    NumKeyDicts
    \cup {PyList(<<StrA, d>>) : d \in NumKeyDicts}
    \cup {PyDict(<<<<PyInt(0), d>>, <<PyFloat(-5), PyList(<<d>>)>>>>) : d \in NumKeyDicts}

PyInputs ==
    UNION {Shapes(x) : x \in PlainLeaves \cup Tuples \cup RichLeaves} \cup NumKeyDocs

Chars(tag, payload) == JStr(Tagged(tag, payload))

PathXY == <<"x", ".", "Y">>

\* string leaves of a received document
WireStrings ==
    {\* references that do not resolve: no such module, no such attribute,
     \* no module part, empty path
     Chars(TagType, PathXY), Chars(TagType, <<"a", ".", "U">>), Chars(TagType, <<"T">>),
     Chars(TagFunction, <<"x", ".", "f">>), Chars(TagFunction, <<"a", ".", "g">>),
     Chars(TagModule, <<"x">>), Chars(TagModule, <<>>),
     \* references that resolve
     Chars(TagType, <<"a", ".", "T">>), Chars(TagFunction, <<"a", ".", "f">>),
     Chars(TagModule, ModAB), Chars(TagType, <<"a", ".", "b", ".", "T">>),
     \* tags with a payload that does not parse
     Chars(TagInt, <<"a", "b", "c">>), Chars(TagFloat, <<"x">>),
     Chars(TagTuple, <<"1", " ", "+">>), Chars(TagInt, <<>>),
     \* well-formed tags
     Chars(TagInt, <<"5">>), Chars(TagFloat, <<"2", ".", "5">>),
     Chars(TagTuple, <<"(", "1", ",", " ", "2", ")">>),
     \* a tag word without its opening parenthesis
     JStr(TagInt), JStr(TagInt \o <<"x">>), JStr(TagInt \o <<"x", "5", ")">>),
     JStr(TagFloat), JStr(TagTuple \o <<"x">>), JStr(TagType \o <<"x">>),
     JStr(TagModule), JStr(TagFunction \o <<"y">>),
     \* plain strings
     JStr(<<"a">>), JStr(<<>>), JStr(<<"_">>), JStr(<<"_", "_", "i", "n">>),
     JStr(<<"i", "n", "t">>), JStr(PathXY), JStr(<<"o", "k">>)}

WireLeaves ==
    WireStrings \cup {JNum(<<"5">>), JNum(<<"2", ".", "5">>),
                      <<"jbool", TRUE>>, <<"jnull", 0>>}

\* x at the top level, as an array item, as a member value
WireShapes(x) ==
    {x, JArr(<<x>>), JArr(<<JStr(<<"o", "k">>), x, Chars(TagInt, <<"5">>)>>),
     JObj(<<<<<<"k">>, x>>, <<Tagged(TagFloat, <<"2", ".", "5">>), JStr(<<"o", "k">>)>>>>),
     JArr(<<JObj(<<<<<<"k">>, JArr(<<x>>)>>>>)>>)}

\* the string s as a member name
WireKeyShapes(s) ==
    {JObj(<<<<s[2], JNum(<<"5">>)>>>>),
     JObj(<<<<<<"k">>, JStr(<<"o", "k">>)>>, <<s[2], JArr(<<JStr(<<"a">>)>>)>>>>),
     JObj(<<<<s[2], JNum(<<"5">>)>>, <<PathXY, JStr(<<"o", "k">>)>>>>)}

WireInputs ==
    UNION {WireShapes(x) : x \in WireLeaves} \cup UNION {WireKeyShapes(s) : s \in WireStrings}

(***************************************************************************)
(* Codec: state machine.  A run either encodes a value and decodes the     *)
(* text again, or calls the leaf rule _encode directly (the only way to    *)
(* pass `strict`), or decodes a received document.                         *)
(***************************************************************************)
CInit ==
    /\ \/ pc = "start" /\ obj \in PyInputs /\ text = None
       \/ pc = "received" /\ obj = None /\ text \in WireInputs
    /\ result = None
    /\ warnings = 0

\* the caller's view of a call that returned r: the warnings it emitted and
\* where control is (`done` if it returned, `failed` if it raised)
Outcome(r, done, failed) ==
    /\ warnings' = warnings + r.warn
    /\ pc' = IF IsRaise(r.val) THEN failed ELSE done

Stored(r, done, failed) == Outcome(r, done, failed) /\ text' = r.val

Returned(r, done, failed) == Outcome(r, done, failed) /\ result' = r.val

\* ModuleMultiTypeEncoder().encode(obj)
Encode ==
    /\ pc = "start"
    /\ Stored(encode(obj), "encoded", "encode_raised")
    /\ UNCHANGED <<obj, result>>

\* ModuleMultiTypeEncoder()._encode(obj, strict=strict)
EncodeLeaf(strict) ==
    /\ pc = "start"
    /\ Returned(ModuleMultiTypeEncoder_encode(obj, strict),
                IF strict THEN "leaf_strict" ELSE "leaf", "leaf_raised")
    /\ UNCHANGED <<obj, text>>

\* ModuleMultiTypeDecoder().decode(text)
Decode ==
    /\ pc \in {"encoded", "received"}
    /\ Returned(decode(text), "decoded", "decode_raised")
    /\ UNCHANGED <<obj, text>>

(***************************************************************************)
(* Specifications                                                          *)
(***************************************************************************)
CInitIdle ==
    /\ pc = "idle"
    /\ obj = None
    /\ text = None
    /\ result = None
    /\ warnings = 0

\* the codec
Init == CInit /\ HInitIdle

Next ==
    \/ Encode /\ UNCHANGED hvars
    \/ (\E strict \in BOOLEAN : EncodeLeaf(strict)) /\ UNCHANGED hvars
    \/ Decode /\ UNCHANGED hvars

Spec == Init /\ [][Next]_vars

\* the logging handler
HandlerInit == HInit /\ CInitIdle

HandlerNext ==
    \/ Construct /\ UNCHANGED cvars
    \/ Emit /\ UNCHANGED cvars

HandlerSpec == HandlerInit /\ [][HandlerNext]_vars

(***************************************************************************)
(* Properties of the codec (checked under Spec)                            *)
(***************************************************************************)
Raised == pc \in {"encode_raised", "decode_raised"}

PlainText(cs) == ~StartsWith(cs, <<"_", "_">>)

PlainScalar(o) ==
    o[1] \in {"int", "float", "bool", "None"} \/ (o[1] = "str" /\ PlainText(o[2]))

\* every mapping of o has native int or float keys only, and o has no
\* other leaves than plain scalars
RECURSIVE KeysNative(_)
KeysNative(o) ==
    IF o[1] = "list" THEN \A i \in 1..Len(o[2]) : KeysNative(o[2][i])
    ELSE IF o[1] = "dict"
    THEN \A i \in 1..Len(o[2]) : o[2][i][1][1] \in {"int", "float"} /\ KeysNative(o[2][i][2])
    ELSE PlainScalar(o)

RECURSIVE HasDict(_)
HasDict(o) ==
    IF o[1] = "list" THEN \E i \in 1..Len(o[2]) : HasDict(o[2][i])
    ELSE o[1] = "dict" /\ Len(o[2]) > 0

\* C1: a mapping with native int / float keys, at the top level or nested in
\* lists and mappings, is encoded without an exception and decoded to an
\* equal structure: the same items, each key the original number with its
\* original type (int 5, float 2.5, never the strings "5" / "2.5").
C1_NumericKeysRoundTrip ==
    (KeysNative(obj) /\ HasDict(obj)) =>
        /\ ~Raised
        /\ pc = "decoded" => result = obj

C1_Witness ==
    /\ pc = "decoded"
    /\ obj = PyDict(<<<<PyInt(5), StrA>>, <<PyFloat(25), PyInt(7)>>>>)
    /\ result[2][1][1] = PyInt(5)
    /\ result[2][2][1] = PyFloat(25)

\* C2: a fixed-width numpy scalar is decoded to an equal value of the same
\* fixed-width type.
C2_FixedWidthRoundTrip ==
    (pc = "decoded" /\ obj[1] \in NpIntTypes \cup NpFloatTypes) => result = obj

RECURSIVE HasLocalObject(_)
HasLocalObject(o) ==
    IF o[1] = "list" THEN \E i \in 1..Len(o[2]) : HasLocalObject(o[2][i])
    ELSE IF o[1] = "dict"
    THEN \E i \in 1..Len(o[2]) : o[2][i][1] = LocalObject \/ HasLocalObject(o[2][i][2])
    ELSE o = LocalObject

\* C3: a value no encode rule recognises does not make encode raise: the
\* text is produced and a warning is emitted; with strict the leaf rule
\* raises.
C3_GracefulDegradation ==
    HasLocalObject(obj) =>
        /\ pc # "encode_raised"
        /\ pc = "encoded" => warnings >= 1
        /\ pc # "leaf_strict"

ValueTags == {TagInt, TagFloat, TagTuple}

RefTags == {TagType, TagFunction, TagModule}

\* cs is <tag>(<payload>)
IsTagged(cs, tag) == StartsWith(cs, tag \o <<"(">>) /\ cs[Len(cs)] = ")"

Payload(cs, tag) == SubSeq(cs, Len(tag) + 2, Len(cs) - 1)

Malformed(cs) ==
    \/ IsTagged(cs, TagInt) /\ IsRaise(PyIntParse(Payload(cs, TagInt)))
    \/ IsTagged(cs, TagFloat) /\ IsRaise(PyFloatParse(Payload(cs, TagFloat)))
    \/ IsTagged(cs, TagTuple) /\ IsRaise(ToTuple(literal_eval(Payload(cs, TagTuple))))

\* the string leaves and member names of the document j
RECURSIVE Strings(_)
Strings(j) ==
    IF j[1] = "jstr" THEN {j[2]}
    ELSE IF j[1] = "jarr" THEN UNION {Strings(j[2][i]) : i \in 1..Len(j[2])}
    ELSE IF j[1] = "jobj"
    THEN UNION {{j[2][i][1]} \cup Strings(j[2][i][2]) : i \in 1..Len(j[2])}
    ELSE {}

\* C4: a tag whose payload does not parse fails that leaf only; decode of
\* the document does not raise.
C4_MalformedLeafOnly ==
    (pc \in {"decoded", "decode_raised"} /\ (\E cs \in Strings(text) : Malformed(cs))) => pc = "decoded"

\* the path P of a reference tag resolves to a live object
Resolves(tag, P) ==
    IF tag = TagModule THEN ~IsRaise(import_module(P))
    ELSE ~IsRaise(getattr(import_module(ModulePart(P)), NamePart(P)))

Unresolvable(cs) == \E tag \in RefTags : IsTagged(cs, tag) /\ ~Resolves(tag, Payload(cs, tag))

RefPath(cs) == Payload(cs, CHOOSE tag \in RefTags : IsTagged(cs, tag))

\* what a string of the document is expected to decode to: the path for an
\* unresolvable reference, the number for the two well-formed number tags
\* used in the documents, itself otherwise
ExpectedString(cs) ==
    IF Unresolvable(cs) THEN PyStr(RefPath(cs))
    ELSE IF cs = Tagged(TagInt, <<"5">>) THEN PyInt(5)
    ELSE IF cs = Tagged(TagFloat, <<"2", ".", "5">>) THEN PyFloat(25)
    ELSE PyStr(cs)

Expectable(cs) ==
    \/ Unresolvable(cs)
    \/ PlainText(cs)
    \/ cs \in {Tagged(TagInt, <<"5">>), Tagged(TagFloat, <<"2", ".", "5">>)}

RECURSIVE Expected(_)
Expected(j) ==
    IF j[1] = "jstr" THEN ExpectedString(j[2])
    ELSE IF j[1] = "jarr" THEN PyList([i \in 1..Len(j[2]) |-> Expected(j[2][i])])
    ELSE IF j[1] = "jobj"
    THEN PyDict([i \in 1..Len(j[2]) |-> <<ExpectedString(j[2][i][1]), Expected(j[2][i][2])>>])
    ELSE JsonLoads(j)

\* every string of j is expectable and no two names of one object are
\* expected to decode to the same key
RECURSIVE WellFormedDoc(_)
WellFormedDoc(j) ==
    IF j[1] = "jstr" THEN Expectable(j[2])
    ELSE IF j[1] = "jarr" THEN \A i \in 1..Len(j[2]) : WellFormedDoc(j[2][i])
    ELSE IF j[1] = "jobj"
    THEN /\ \A i \in 1..Len(j[2]) : Expectable(j[2][i][1]) /\ WellFormedDoc(j[2][i][2])
         /\ \A i, k \in 1..Len(j[2]) :
                i # k => ExpectedString(j[2][i][1]) # ExpectedString(j[2][k][1])
    ELSE j[1] \in {"jnum", "jbool", "jnull"}

RECURSIVE CountUnresolvable(_)
CountUnresolvable(j) ==
    IF j[1] = "jstr" THEN (IF Unresolvable(j[2]) THEN 1 ELSE 0)
    ELSE IF j[1] = "jarr" /\ Len(j[2]) > 0
    THEN CountUnresolvable(j[2][1]) + CountUnresolvable(JArr(Tail(j[2])))
    ELSE IF j[1] = "jobj" /\ Len(j[2]) > 0
    THEN (IF Unresolvable(j[2][1][1]) THEN 1 ELSE 0) + CountUnresolvable(j[2][1][2])
         + CountUnresolvable(JObj(Tail(j[2])))
    ELSE 0

\* C5: a reference tag __type__(P), __function__(P) or __module__(P) whose
\* path does not resolve, at any position of the document, does not make
\* decode raise: a warning is emitted for it and the result is the document
\* with that string replaced by the path P, everything else decoded as usual.
C5_UnresolvableDegrades ==
    (/\ pc \in {"decoded", "decode_raised"}
     /\ WellFormedDoc(text)
     /\ (\E cs \in Strings(text) : Unresolvable(cs))) =>
        /\ pc = "decoded"
        /\ result = Expected(text)
        /\ warnings >= CountUnresolvable(text)

C5_Witness ==
    /\ pc = "decoded"
    /\ text = JObj(<<<<<<"k">>, Chars(TagType, PathXY)>>,
                     <<Tagged(TagFloat, <<"2", ".", "5">>), JStr(<<"o", "k">>)>>>>)
    /\ result = PyDict(<<<<PyStr(<<"k">>), PyStr(PathXY)>>,
                         <<PyFloat(25), PyStr(<<"o", "k">>)>>>>)
    /\ warnings = 1

HasTagPrefix(cs) == \E tag \in ValueTags \cup RefTags : StartsWith(cs, tag \o <<"(">>)

\* C6: a string that does not begin with a tag word followed by "(" is
\* returned unchanged by decode, without an exception.
C6_UntaggedUnchanged ==
    (pc \in {"decoded", "decode_raised"} /\ text[1] = "jstr" /\ ~HasTagPrefix(text[2])) =>
        (pc = "decoded" /\ result = PyStr(text[2]))

PlainTuple(o) == o[1] = "tuple" /\ \A i \in 1..Len(o[2]) : PlainScalar(o[2][i])

\* C7: a tuple of plain scalars, as the top-level value, a list item, a dict
\* value or a dict key, is encoded and decoded without an exception to an
\* equal structure in which it is a tuple again.
C7_TupleRoundTrip ==
    (\E x \in Tuples : PlainTuple(x) /\ obj \in Shapes(x)) =>
        /\ ~Raised
        /\ pc = "decoded" => result = obj

(***************************************************************************)
(* Properties of the handler (checked under HandlerSpec)                   *)
(***************************************************************************)
ValidPeriod(f) == f[1] = "int" /\ f[2] >= 1

C9_DictFrequencies ==
    (hpc # "new" /\ logging_frequencies[1] = "dict") =>
        /\ hpc = "ready"
        /\ \A k \in ModeSet : frequencies[k] = PyInt(DictGet(logging_frequencies[2], k, 1))

\* C10: an emit never changes the frequencies; with a message that is not
\* a dict it changes no counter and fires nothing; with a dict it changes
\* the counter and fires the operation of no mode that is not a key of the
\* message, and of no key that is not a supported mode.
C10_EmitFrame ==
    [][hpc = "ready" =>
          /\ frequencies' = frequencies
          /\ DOMAIN counter' = ModeSet
          /\ record'[1] # "dict" => (counter' = counter /\ fired' = fired)
          /\ record'[1] = "dict" =>
                \A k \in Ops :
                    k \notin (Range(record'[2]) \cap ModeSet) =>
                        /\ fired'[k] = fired[k]
                        /\ k \in ModeSet => counter'[k] = counter[k]]_vars

C10_Witness ==
    /\ emit_result = "ok"
    /\ record = <<"dict", <<"bogus", "scalar">>>>
    /\ counter["scalar"] = 1
    /\ counter["image"] = 0
    /\ fired["bogus"] = 0

====
